---- MODULE Spec2Model ----
(***************************************************************************)
(* Model of the synthetic RNA-seq count-matrix generator                   *)
(* (src/count_matrix_generator.py).  One invocation of simulate_counts is  *)
(* followed statement block by statement block; the process-wide numpy     *)
(* random state is the variable rng, which outlives an invocation.         *)
(*                                                                         *)
(* Real numbers (de_prop, fold_change, dispersion, the means, size, p) are *)
(* exact rationals <<numerator, denominator>>.  The Mersenne Twister is    *)
(* abstracted as a full-period congruential generator over RngMod states:  *)
(* what the model keeps of it is that every value drawn is a function of   *)
(* the generator state, that every draw advances the state, and that       *)
(* seeding sets the state from the seed alone.                             *)
(***************************************************************************)
EXTENDS Integers, Sequences, FiniteSets, TLC

\* ------------------------------------------------------------------ bounds
MaxGenes   == 3    \* n_genes ranges over 1..MaxGenes
MaxSamples == 2    \* n_ctrl and n_trt range over 1..MaxSamples
MaxNames   == 2    \* a supplied gene list / gene file has at most MaxNames entries
RngMod     == 8    \* number of states of the abstract generator

\* -------------------------------------------------------- program constants
MuLow  == 50       \* np.random.uniform(50, 2000, ...)
MuHigh == 2000

\* --------------------------------------------------------------- rationals
Abs(x) == IF x < 0 THEN -x ELSE x

RECURSIVE GCD(_, _)
GCD(a, b) == IF b = 0 THEN a ELSE GCD(b, a % b)

\* lowest terms, denominator >= 0 (0 for an infinity)
RNorm(q) ==
    LET g == GCD(Abs(q[1]), Abs(q[2]))
        d == IF g = 0 THEN 1 ELSE g
    IN IF q[2] < 0 THEN <<(-q[1]) \div d, (-q[2]) \div d>> ELSE <<q[1] \div d, q[2] \div d>>
RMul(a, b) == RNorm(<<a[1] * b[1], a[2] * b[2]>>)
\* numpy float division: a zero divisor gives an infinity (denominator 0)
RDiv(a, b) == RNorm(<<a[1] * b[2], a[2] * b[1]>>)
RAdd(a, b) == RNorm(<<a[1] * b[2] + b[1] * a[2], a[2] * b[2]>>)
RSub(a, b) == RAdd(a, <<-b[1], b[2]>>)
REq(a, b) == a[1] * b[2] = b[1] * a[2]
RLess(a, b) == a[1] * b[2] < b[1] * a[2]
RLeq(a, b) == a[1] * b[2] <= b[1] * a[2]
RZero == <<0, 1>>
ROne == <<1, 1>>
\* floor of a non-negative rational
RFloor(q) == q[1] \div q[2]

\* ------------------------------------------------------------- text helpers
\* str(k) for k >= 0, as the sequence of its decimal digits
Digit(d) == <<"0", "1", "2", "3", "4", "5", "6", "7", "8", "9">>[d + 1]

RECURSIVE Decimal(_)
Decimal(k) == IF k < 10 THEN <<Digit(k)>> ELSE Decimal(k \div 10) \o <<Digit(k % 10)>>

\* f"{prefix}{i+1}" for i in range(n)
NumberedNames(prefix, n) == [k \in 1..n |-> <<prefix>> \o Decimal(k)]

\* line.strip(): a line is a sequence of characters, " " is the white space
RECURSIVE LStrip(_)
LStrip(l) == IF l # <<>> /\ Head(l) = " " THEN LStrip(Tail(l)) ELSE l

RECURSIVE RStrip(_)
RStrip(l) == IF l # <<>> /\ l[Len(l)] = " " THEN RStrip(SubSeq(l, 1, Len(l) - 1)) ELSE l

Strip(l) == RStrip(LStrip(l))

\* [line.strip() for line in f if line.strip()]
RECURSIVE LoadGeneList(_)
LoadGeneList(lines) ==
    IF lines = <<>> THEN <<>>
    ELSE IF Strip(Head(lines)) # <<>>
         THEN <<Strip(Head(lines))>> \o LoadGeneList(Tail(lines))
         ELSE LoadGeneList(Tail(lines))

\* ---------------------------------------------------------------- generator
RngStates == 0..(RngMod - 1)

\* np.random.seed(seed): the state depends on the seed only
SeedState(seed) == seed % RngMod

\* one step of the generator
NextState(s) == (5 * s + 3) % RngMod

RECURSIVE Steps(_, _)
Steps(s, k) == IF k = 0 THEN s ELSE Steps(NextState(s), k - 1)

\* the most values one invocation draws: the shuffle, the means, the counts
MaxDraws == (MaxGenes - 1) + MaxGenes + MaxGenes * 2 * MaxSamples

\* the state k steps after s, tabulated
StateAfter == [s \in RngStates |-> [k \in 0..MaxDraws |-> Steps(s, k)]]

Advance(s, k) == StateAfter[s][k]

\* the value in 0..max that the state s yields (rk_interval)
Interval(s, max) == s % (max + 1)

\* x[a], x[b] = x[b], x[a]
Swap(x, a, b) == [k \in 1..Len(x) |-> IF k = a THEN x[b] ELSE IF k = b THEN x[a] ELSE x[k]]

\* RandomState.shuffle over x (1-based here): for i = n-1 downto 1,
\* j = interval(i), swap x[i], x[j]; one state is consumed per i
RECURSIVE Shuffle(_, _, _)
Shuffle(x, i, s) ==
    IF i < 1 THEN x
    ELSE Shuffle(Swap(x, i + 1, Interval(s, i) + 1), i - 1, NextState(s))

\* RandomState.permutation(n): shuffle of arange(n)
Permutation(n, s) == Shuffle([k \in 1..n |-> k - 1], n - 1, s)

\* number of generator states permutation(n) consumes
PermutationDraws(n) == IF n > 1 THEN n - 1 ELSE 0

\* Choice with replace=True: k independent indices
ChoiceWithReplacement(n, k, s) == [j \in 1..k |-> Interval(Advance(s, j - 1), n - 1)]

\* np.random.choice(n, k, replace=False) without p: permutation(n)[:k]
Choice(n, k, s) == SubSeq(Permutation(n, s), 1, k)

\* one value of np.random.uniform(low, high): low + (high - low) * u, u in [0, 1)
Uniform(low, high, s) == RNorm(<<low * RngMod + (high - low) * s, RngMod>>)

\* np.random.uniform(low, high, size=n) from state s
UniformArray(low, high, n, s) == [k \in 1..n |-> Uniform(low, high, Advance(s, k - 1))]

\* mean of the negative binomial with parameters (size, p): size * (1 - p) / p
NBMean(size, p) == RDiv(RMul(size, RSub(ROne, p)), p)

\* numpy's argument check of negative_binomial(n, p): n > 0 and 0 <= p <= 1
NBArgsOk(size, p) ==
    /\ size[2] # 0 /\ RLess(RZero, size)
    /\ p[2] # 0 /\ RLeq(RZero, p) /\ RLeq(p, ROne)

\* one negative-binomial count from state s: a non-negative integer that
\* depends on the state and on the distribution's parameters
NBSample(size, p, s) ==
    IF p[1] = 0 THEN 0 ELSE RFloor(RMul(NBMean(size, p), <<2 * s + 1, RngMod>>))

\* np.random.negative_binomial(size, p, size=k) from state s
NBArray(size, p, k, s) == [j \in 1..k |-> NBSample(size, p, Advance(s, j - 1))]

\* -------------------------------------------------------------------- state
VARIABLES
    pc,            \* position of the process: "idle", a block of simulate_counts, "done", "failed"
    args,          \* the arguments of the running invocation
    rng,           \* the process-wide numpy random state
    genes,         \* locals of simulate_counts, named as in the source
    ctrl_samples,
    trt_samples,
    n_de,
    de_indices,
    non_de_indices,
    mu_ctrl,
    mu_trt,
    half,
    size,
    counts,
    i,
    p_ctrl,
    p_trt,
    file,          \* what is at the output path
    error,         \* the exception that ended the invocation
    seeded,        \* history: calls of np.random.seed in this invocation
    draws,         \* history: the values drawn in this invocation, in order
    prev,          \* history: the table of the previous run with the same arguments
    earlier,       \* history: how the earlier calls of the observed session ended
    session_state, \* st.session_state of the dashboard session: key -> value
    network,       \* the network selected in the sidebar
    results,       \* the files of RESULTS_DIR the dashboard reads
    executed,      \* history: the hashes stored by the pipeline button
    published,     \* history: the receipts publish_proof_onchain returned
    last,          \* history: the last call of publish_proof_onchain or mint_nft_onchain
    message        \* the last st.success or st.error of a button

locals == <<genes, ctrl_samples, trt_samples, n_de, de_indices, non_de_indices,
            mu_ctrl, mu_trt, half, size, counts, i, p_ctrl, p_trt>>

dashboard == <<session_state, network, results, executed, published, last, message>>

vars == <<pc, args, rng, genes, ctrl_samples, trt_samples, n_de, de_indices,
          non_de_indices, mu_ctrl, mu_trt, half, size, counts, i, p_ctrl, p_trt,
          file, error, seeded, draws, prev, earlier, dashboard>>

\* ------------------------------------------------------------------- inputs
None == [supplied |-> FALSE, names |-> <<>>]
Some(names) == [supplied |-> TRUE, names |-> names]

\* gene names as they come out of a gene file (stripped, not blank)
Names == {<<"A">>, <<"B">>}

RECURSIVE SeqsUpTo(_, _)
SeqsUpTo(S, n) ==
    IF n = 0 THEN {<<>>}
    ELSE LET shorter == SeqsUpTo(S, n - 1)
         IN shorter \cup {Append(q, x) : q \in {r \in shorter : Len(r) = n - 1}, x \in S}

GeneLists == {None} \cup {Some(q) : q \in SeqsUpTo(Names, MaxNames)}

\* de_prop: 0, 1/2, 1 and the out-of-range 3/2
DeProps == {<<0, 1>>, <<1, 2>>, <<1, 1>>, <<3, 2>>}
\* fold_change: the default 4, the neutral 1 and the negative -2
FoldChanges == {<<4, 1>>, <<1, 1>>, <<-2, 1>>}
\* dispersion: the default 0.3, zero and the negative -1/2
Dispersions == {<<3, 10>>, <<0, 1>>, <<-1, 2>>}

\* seed: 0 and the default 42
Seeds == {0, 42}

ArgSets ==
    [n_genes : 1..MaxGenes, n_ctrl : 1..MaxSamples, n_trt : 1..MaxSamples,
     de_prop : DeProps, fold_change : FoldChanges, dispersion : Dispersions,
     seed : Seeds, gene_list : GeneLists]

\* the ranges the specification calls valid, for the numeric parameters ...
ValidNumbers(a) ==
    /\ RLeq(a.de_prop, ROne)
    /\ RLess(RZero, a.fold_change)
    /\ RLess(RZero, a.dispersion)

\* ... and for all of them
ValidArgs(a) ==
    /\ ValidNumbers(a)
    /\ (a.gene_list.supplied => Len(a.gene_list.names) >= a.n_genes)

\* lines of a gene file: a blank one, a name, a name with white space around it
Lines == {<<" ">>, <<"A">>, <<" ", "B", " ">>}
\* --genes_file: not given, given but unreadable, or given with its lines
GenesFileArgs ==
    {[given |-> FALSE, readable |-> FALSE, lines |-> <<>>],
     [given |-> TRUE, readable |-> FALSE, lines |-> <<>>]}
    \cup {[given |-> TRUE, readable |-> TRUE, lines |-> l] : l \in SeqsUpTo(Lines, MaxNames)}

\* the other command-line arguments
CommandLines == {a \in ArgSets : a.gene_list = None}

NoArgs ==
    [n_genes |-> 0, n_ctrl |-> 0, n_trt |-> 0, de_prop |-> RZero, fold_change |-> RZero,
     dispersion |-> RZero, seed |-> 0, gene_list |-> None]

NoFile == [exists |-> FALSE, rows |-> <<>>]
NoError == [kind |-> "", at |-> "", info |-> <<>>]
Unset == <<>>

Init ==
    /\ pc = "idle"
    /\ args = NoArgs
    /\ rng \in RngStates
    /\ genes = Unset /\ ctrl_samples = Unset /\ trt_samples = Unset
    /\ n_de = 0 /\ de_indices = Unset /\ non_de_indices = {}
    /\ mu_ctrl = Unset /\ mu_trt = Unset /\ half = 0 /\ size = RZero
    /\ counts = Unset /\ i = 0 /\ p_ctrl = RZero /\ p_trt = RZero
    /\ file = NoFile
    /\ error = NoError
    /\ seeded = 0
    /\ draws = <<>>
    /\ prev = NoFile
    /\ earlier = {}
    /\ session_state = <<>>
    /\ network = "Base Mainnet"
    /\ results = [hashes |-> <<Unset, Unset, Unset>>, figure |-> FALSE]
    /\ executed = {} /\ published = {}
    /\ last = [op |-> "", bundle |-> Unset, tx |-> Unset]
    /\ message = ""

ResetLocals ==
    /\ genes' = Unset /\ ctrl_samples' = Unset /\ trt_samples' = Unset
    /\ n_de' = 0 /\ de_indices' = Unset /\ non_de_indices' = {}
    /\ mu_ctrl' = Unset /\ mu_trt' = Unset /\ half' = 0 /\ size' = RZero
    /\ counts' = Unset /\ i' = 0 /\ p_ctrl' = RZero /\ p_trt' = RZero

\* an exception leaves simulate_counts: nothing else changes
Raise(kind, at, info) ==
    /\ pc' = "failed"
    /\ error' = [kind |-> kind, at |-> at, info |-> info]

\* ------------------------------------------------------------- entry points
\* a caller in this process invokes simulate_counts(a); the output path names
\* no existing file; the random state is whatever the process holds
Call ==
    /\ pc = "idle"
    /\ \E a \in ArgSets : args' = a
    /\ pc' = "seed"
    /\ ResetLocals
    /\ file' = NoFile /\ error' = NoError /\ seeded' = 0 /\ draws' = <<>> /\ prev' = NoFile
    /\ UNCHANGED <<rng, earlier, dashboard>>

\* the command line: load the gene file if one is given, then run the simulation
Main ==
    /\ pc = "idle"
    /\ ResetLocals
    /\ file' = NoFile /\ seeded' = 0 /\ draws' = <<>> /\ prev' = NoFile
    /\ UNCHANGED <<rng, earlier, dashboard>>
    /\ \E a \in CommandLines, f \in GenesFileArgs :
          IF f.given /\ ~f.readable
          THEN /\ args' = a
               /\ Raise("SystemExit", "genes_file", <<1>>)
          ELSE /\ args' = [a EXCEPT !.gene_list =
                              IF f.given THEN Some(LoadGeneList(f.lines)) ELSE None]
               /\ pc' = "seed"
               /\ error' = NoError

\* ---------------------------------------------------------- simulate_counts
\* Seed with the seed argument forgotten: np.random.seed() takes fresh entropy
SeedWithoutArgument ==
    /\ pc = "seed"
    /\ rng' \in RngStates
    /\ seeded' = seeded + 1
    /\ pc' = "names"
    /\ UNCHANGED <<args, locals, file, error, draws, prev, earlier, dashboard>>

\* Seed with the call left out: the generator keeps the state it has
SeedLeftOut ==
    /\ pc = "seed"
    /\ seeded' = seeded + 1
    /\ pc' = "names"
    /\ UNCHANGED <<rng, args, locals, file, error, draws, prev, earlier, dashboard>>

\* np.random.seed(seed)
Seed ==
    /\ pc = "seed"
    /\ rng' = SeedState(args.seed)
    /\ seeded' = seeded + 1
    /\ pc' = "names"
    /\ UNCHANGED <<args, locals, file, error, draws, prev, earlier, dashboard>>

\* the truth value of gene_list in "if gene_list:": None and the empty list are false
Truthy(gene_list) == gene_list.supplied /\ Len(gene_list.names) > 0

\* GeneNames taking the last n_genes supplied names: gene_list[-n_genes:]
GeneNamesFromEnd(gene_list, n_genes) ==
    IF Truthy(gene_list)
    THEN SubSeq(gene_list.names, Len(gene_list.names) - n_genes + 1, Len(gene_list.names))
    ELSE NumberedNames("gene_", n_genes)

\* the gene names of a run that passed the length check
GeneNames(gene_list, n_genes) ==
    IF Truthy(gene_list)
    THEN SubSeq(gene_list.names, 1, n_genes)
    ELSE NumberedNames("gene_", n_genes)

\* gene name generation
NameGenes ==
    /\ pc = "names"
    /\ IF Truthy(args.gene_list) /\ Len(args.gene_list.names) < args.n_genes
       THEN /\ Raise("ValueError", "gene_list", <<Len(args.gene_list.names), args.n_genes>>)
            /\ UNCHANGED genes
       ELSE /\ genes' = GeneNames(args.gene_list, args.n_genes)
            /\ pc' = "samples"
            /\ UNCHANGED error
    /\ UNCHANGED <<args, rng, ctrl_samples, trt_samples, n_de, de_indices, non_de_indices,
                   mu_ctrl, mu_trt, half, size, counts, i, p_ctrl, p_trt,
                   file, seeded, draws, prev, earlier, dashboard>>

\* CtrlSampleNames numbered from 0: f"ctrl_{i}"
CtrlSampleNamesFromZero(n_ctrl) == [k \in 1..n_ctrl |-> <<"ctrl_">> \o Decimal(k - 1)]

CtrlSampleNames(n_ctrl) == NumberedNames("ctrl_", n_ctrl)
TrtSampleNames(n_trt) == NumberedNames("trt_", n_trt)

\* sample names
NameSamples ==
    /\ pc = "samples"
    /\ ctrl_samples' = CtrlSampleNames(args.n_ctrl)
    /\ trt_samples' = TrtSampleNames(args.n_trt)
    /\ pc' = "select"
    /\ UNCHANGED <<args, rng, genes, n_de, de_indices, non_de_indices,
                   mu_ctrl, mu_trt, half, size, counts, i, p_ctrl, p_trt,
                   file, error, seeded, draws, prev, earlier, dashboard>>

\* int(n_genes * de_prop), for de_prop >= 0
DeCount(n_genes, de_prop) == (n_genes * de_prop[1]) \div de_prop[2]

\* the history entries of k values drawn from state s on: what was drawn, the
\* gene and the column it is for (-1 when it has none), the state that gave it
Drawn(what, cells, s) ==
    [j \in 1..Len(cells) |->
        [what |-> what, gene |-> cells[j][1], col |-> cells[j][2], state |-> Advance(s, j - 1)]]

Range(q) == {q[k] : k \in 1..Len(q)}

\* select DE genes
SelectDE ==
    /\ pc = "select"
    /\ LET k == DeCount(args.n_genes, args.de_prop)
           used == PermutationDraws(args.n_genes)
       IN /\ n_de' = k
          /\ IF k > args.n_genes
             THEN \* choice: cannot take a larger sample than population
                  /\ Raise("ValueError", "choice", <<k, args.n_genes>>)
                  /\ UNCHANGED <<rng, de_indices, non_de_indices, draws>>
             ELSE /\ de_indices' = Choice(args.n_genes, k, rng)
                  /\ non_de_indices' = (0..(args.n_genes - 1)) \ Range(de_indices')
                  /\ rng' = Advance(rng, used)
                  /\ draws' = draws \o Drawn("choice", [j \in 1..used |-> <<-1, -1>>], rng)
                  /\ pc' = "means"
                  /\ UNCHANGED error
    /\ UNCHANGED <<args, genes, ctrl_samples, trt_samples, mu_ctrl, mu_trt, half, size,
                   counts, i, p_ctrl, p_trt, file, seeded, prev, earlier, dashboard>>

\* BaselineMeans with the generator seeded again before the means are drawn
BaselineMeansReseeded ==
    /\ pc = "means"
    /\ mu_ctrl' = UniformArray(MuLow, MuHigh, args.n_genes, SeedState(args.seed))
    /\ mu_trt' = mu_ctrl'
    /\ rng' = Advance(SeedState(args.seed), args.n_genes)
    /\ seeded' = seeded + 1
    /\ draws' = draws \o Drawn("uniform", [j \in 1..args.n_genes |-> <<j - 1, -1>>],
                               SeedState(args.seed))
    /\ pc' = "fold"
    /\ UNCHANGED <<args, genes, ctrl_samples, trt_samples, n_de, de_indices, non_de_indices,
                   half, size, counts, i, p_ctrl, p_trt, file, error, prev, earlier, dashboard>>

\* baseline expression levels
BaselineMeans ==
    /\ pc = "means"
    /\ mu_ctrl' = UniformArray(MuLow, MuHigh, args.n_genes, rng)
    /\ mu_trt' = mu_ctrl'
    /\ rng' = Advance(rng, args.n_genes)
    /\ draws' = draws \o Drawn("uniform", [j \in 1..args.n_genes |-> <<j - 1, -1>>], rng)
    /\ pc' = "fold"
    /\ UNCHANGED <<args, genes, ctrl_samples, trt_samples, n_de, de_indices, non_de_indices,
                   half, size, counts, i, p_ctrl, p_trt, file, error, seeded, prev, earlier, dashboard>>

\* Half rounded up: (n_de + 1) // 2
HalfRoundedUp(k) == (k + 1) \div 2

\* half = n_de // 2
Half(k) == k \div 2

\* mu[idx] *= f and mu[idx] /= f for the gene indices idx (0-based) of a slice
Multiplied(mu, idx, f) ==
    [g \in 1..Len(mu) |-> IF (g - 1) \in Range(idx) THEN RMul(mu[g], f) ELSE mu[g]]

Divided(mu, idx, f) ==
    [g \in 1..Len(mu) |-> IF (g - 1) \in Range(idx) THEN RDiv(mu[g], f) ELSE mu[g]]

\* FoldedMeans with the slices cut so that the first one is the longer
FoldedMeansFirstLonger(mu, de, h, fold_change) ==
    Divided(Multiplied(mu, SubSeq(de, 1, Len(de) - h), fold_change),
            SubSeq(de, Len(de) - h + 1, Len(de)), fold_change)

\* mu_trt[de_indices[:half]] *= fold_change; mu_trt[de_indices[half:]] /= fold_change
FoldedMeans(mu, de, h, fold_change) ==
    Divided(Multiplied(mu, SubSeq(de, 1, h), fold_change), SubSeq(de, h + 1, Len(de)), fold_change)

\* apply the fold change to the DE genes
ApplyFoldChange ==
    /\ pc = "fold"
    /\ half' = Half(n_de)
    /\ mu_trt' = FoldedMeans(mu_trt, de_indices, half', args.fold_change)
    /\ pc' = "size"
    /\ UNCHANGED <<args, rng, genes, ctrl_samples, trt_samples, n_de, de_indices,
                   non_de_indices, mu_ctrl, size, counts, i, p_ctrl, p_trt,
                   file, error, seeded, draws, prev, earlier, dashboard>>

\* size = 1.0 / dispersion; counts = np.zeros(...)
SetSize ==
    /\ pc = "size"
    /\ IF args.dispersion[1] = 0
       THEN /\ Raise("ZeroDivisionError", "size", <<>>)
            /\ UNCHANGED <<size, counts>>
       ELSE /\ size' = RDiv(ROne, args.dispersion)
            /\ counts' = [g \in 1..args.n_genes |-> [c \in 1..(args.n_ctrl + args.n_trt) |-> 0]]
            /\ pc' = IF 0 < args.n_genes THEN "ctrl" ELSE "save"
            /\ UNCHANGED error
    /\ i' = 0
    /\ UNCHANGED <<args, rng, genes, ctrl_samples, trt_samples, n_de, de_indices,
                   non_de_indices, mu_ctrl, mu_trt, half, p_ctrl, p_trt,
                   file, seeded, draws, prev, earlier, dashboard>>

\* p = size / (size + mu)
Prob(sz, mu) == RDiv(sz, RAdd(sz, mu))

\* row[from + 1 .. from + Len(vals)] = vals
SetCells(row, from, vals) ==
    [c \in 1..Len(row) |-> IF c > from /\ c <= from + Len(vals) THEN vals[c - from] ELSE row[c]]

\* loop body, first half: both probabilities, then the control counts of gene i
SampleControl ==
    /\ pc = "ctrl"
    /\ p_ctrl' = Prob(size, mu_ctrl[i + 1])
    /\ p_trt' = Prob(size, mu_trt[i + 1])
    /\ IF ~NBArgsOk(size, p_ctrl')
       THEN /\ Raise("ValueError", "negative_binomial", <<i, 0>>)
            /\ UNCHANGED <<rng, counts, draws>>
       ELSE /\ counts' = [counts EXCEPT ![i + 1] =
                            SetCells(@, 0, NBArray(size, p_ctrl', args.n_ctrl, rng))]
            /\ rng' = Advance(rng, args.n_ctrl)
            /\ draws' = draws \o Drawn("nb", [j \in 1..args.n_ctrl |-> <<i, j - 1>>], rng)
            /\ pc' = "trt"
            /\ UNCHANGED error
    /\ UNCHANGED <<args, genes, ctrl_samples, trt_samples, n_de, de_indices, non_de_indices,
                   mu_ctrl, mu_trt, half, size, i, file, seeded, prev, earlier, dashboard>>

\* loop body, second half: the treatment counts of gene i, then the next gene
SampleTreatment ==
    /\ pc = "trt"
    /\ IF ~NBArgsOk(size, p_trt)
       THEN /\ Raise("ValueError", "negative_binomial", <<i, args.n_ctrl>>)
            /\ UNCHANGED <<rng, counts, draws, i>>
       ELSE /\ counts' = [counts EXCEPT ![i + 1] =
                            SetCells(@, args.n_ctrl, NBArray(size, p_trt, args.n_trt, rng))]
            /\ rng' = Advance(rng, args.n_trt)
            /\ draws' = draws \o Drawn("nb", [j \in 1..args.n_trt |-> <<i, args.n_ctrl + j - 1>>], rng)
            /\ i' = i + 1
            /\ pc' = IF i + 1 < args.n_genes THEN "ctrl" ELSE "save"
            /\ UNCHANGED error
    /\ UNCHANGED <<args, genes, ctrl_samples, trt_samples, n_de, de_indices, non_de_indices,
                   mu_ctrl, mu_trt, half, size, p_ctrl, p_trt, file, seeded, prev, earlier, dashboard>>

\* pd.DataFrame(counts, index=genes, columns=ctrl_samples + trt_samples) as the
\* rows to_csv writes: the header (a blank cell, then the column names), then
\* one row per gene (its name, then its counts)
DataFrame(data, index, columns) ==
    <<(<<<<>>>> \o columns)>> \o [g \in 1..Len(index) |-> <<index[g]>> \o data[g]]

\* SaveTable that also streams the rows sampled so far to the output while the
\* loop is running
SaveTableStreaming ==
    \/ /\ pc = "save"
       /\ \/ /\ file' = [exists |-> TRUE,
                         rows |-> DataFrame(counts, genes, ctrl_samples \o trt_samples)]
             /\ pc' = "done"
             /\ UNCHANGED error
          \/ /\ Raise("OSError", "to_csv", <<>>)
             /\ UNCHANGED file
       /\ UNCHANGED <<args, rng, locals, seeded, draws, prev, earlier, dashboard>>
    \/ /\ pc = "ctrl"
       /\ file' = [exists |-> TRUE,
                   rows |-> DataFrame(SubSeq(counts, 1, i), SubSeq(genes, 1, i),
                                      ctrl_samples \o trt_samples)]
       /\ file' # file
       /\ UNCHANGED <<pc, args, rng, locals, error, seeded, draws, prev, earlier, dashboard>>

\* create and save the output table; to_csv may find the path not writable
SaveTable ==
    /\ pc = "save"
    /\ \/ /\ file' = [exists |-> TRUE,
                      rows |-> DataFrame(counts, genes, ctrl_samples \o trt_samples)]
          /\ pc' = "done"
          /\ UNCHANGED error
       \/ /\ Raise("OSError", "to_csv", <<>>)
          /\ UNCHANGED file
    /\ UNCHANGED <<args, rng, locals, seeded, draws, prev, earlier, dashboard>>

\* ------------------------------------------------------------ between runs
\* the same arguments are run once more, in this process or in a new one (any
\* random state); a table the first run produced is kept for comparison
Rerun ==
    /\ pc \in {"done", "failed"}
    /\ error.kind # "SystemExit"
    /\ rng' \in RngStates
    /\ prev' = IF pc = "done" THEN file ELSE prev
    /\ pc' = "seed"
    /\ ResetLocals
    /\ file' = NoFile /\ error' = NoError /\ seeded' = 0 /\ draws' = <<>>
    /\ UNCHANGED <<args, earlier, dashboard>>

\* simulate_counts has returned or raised; the process keeps its random state
Return ==
    /\ pc \in {"done", "failed"}
    /\ pc' = "idle"
    /\ args' = NoArgs
    /\ ResetLocals
    /\ file' = NoFile /\ error' = NoError /\ seeded' = 0 /\ draws' = <<>> /\ prev' = NoFile
    /\ UNCHANGED <<rng, earlier, dashboard>>

Next ==
    \/ Call
    \/ Main
    \/ Seed
    \/ NameGenes
    \/ NameSamples
    \/ SelectDE
    \/ BaselineMeans
    \/ ApplyFoldChange
    \/ SetSize
    \/ SampleControl
    \/ SampleTreatment
    \/ SaveTable
    \/ Rerun
    \/ Return

Spec == Init /\ [][Next]_vars

\* ---------------------------------------------- a session of several calls
\* the arguments of the calls of a session: equal group sizes, no gene list
\* or a list of one name
SessionArgs ==
    {a \in ArgSets : a.n_ctrl = a.n_trt
                      /\ (a.gene_list.supplied => Len(a.gene_list.names) = 1)}

\* a caller in this process invokes simulate_counts(a), as Call does
CallInSession ==
    /\ pc = "idle"
    /\ \E a \in SessionArgs : args' = a
    /\ pc' = "seed"
    /\ ResetLocals
    /\ file' = NoFile /\ error' = NoError /\ seeded' = 0 /\ draws' = <<>> /\ prev' = NoFile
    /\ UNCHANGED <<rng, earlier, dashboard>>

\* simulate_counts has returned or raised, as in Return; how the call ended is
\* added to the history of the session
ReturnToCaller ==
    /\ pc \in {"done", "failed"}
    /\ earlier' = earlier \cup {pc}
    /\ pc' = "idle"
    /\ args' = NoArgs
    /\ ResetLocals
    /\ file' = NoFile /\ error' = NoError /\ seeded' = 0 /\ draws' = <<>> /\ prev' = NoFile
    /\ UNCHANGED <<rng, dashboard>>

NextSession ==
    \/ CallInSession
    \/ Seed
    \/ NameGenes
    \/ NameSamples
    \/ SelectDE
    \/ BaselineMeans
    \/ ApplyFoldChange
    \/ SetSize
    \/ SampleControl
    \/ SampleTreatment
    \/ SaveTable
    \/ ReturnToCaller

SpecSession == Init /\ [][NextSession]_vars

\* ------------------------------------------------- the dashboard (OmicChain.py)
generator == <<pc, args, rng, locals, file, error, seeded, draws, prev, earlier>>

Networks == {"Base Mainnet", "Base Testnet"}

\* what a pipeline run leaves in snakefile_hash.txt, rscript_hash.txt and
\* top_genes_hash.txt
PipelineHashes == {<<<<"s">>, <<"r">>, <<"t">>>>, <<<<"s">>, <<"r">>, <<"u">>>>}

\* transaction hashes a receipt can carry
TxHashes == {<<"a1">>, <<"b2">>}

\* safe_read_file_text: the stripped text of the file, "" when it is missing
safe_read_file_text(files, k) == Strip(files.hashes[k])

\* hashlib.sha256(text.encode()).hexdigest(): a digest, never the empty string
Sha256Hex(text) == <<"sha256:">> \o text

\* st.session_state.get(key): the value, None when the key is absent; None and
\* "" are both written <<>>, Python takes both for false
Get(key) == IF key \in DOMAIN session_state THEN session_state[key] ELSE Unset

\* st.session_state[key] = value
Set(state, key, value) ==
    [k \in DOMAIN state \cup {key} |-> IF k = key THEN value ELSE state[k]]

\* the sidebar selectbox
SelectNetwork ==
    /\ \E n \in Networks : network' = n
    /\ UNCHANGED <<generator, session_state, results, executed, published, last, message>>

\* button "Execute Snakemake Pipeline": snakemake runs or raises, then the
\* three hash files are read and their combined hash is stored
ExecutePipeline ==
    /\ \E ran \in BOOLEAN :
         IF ran
         THEN \E h \in PipelineHashes : results' = [hashes |-> h, figure |-> TRUE]
         ELSE results' = results
    /\ message' = "Pipeline hash generated!"
    /\ LET h1 == safe_read_file_text(results', 1)
           h2 == safe_read_file_text(results', 2)
           h3 == safe_read_file_text(results', 3)
           bundle == Sha256Hex(h1 \o h2 \o h3)
       IN /\ session_state' = Set(session_state, "bundle_hash", bundle)
          /\ executed' = executed \cup {bundle}
    /\ UNCHANGED <<generator, network, published, last>>

\* build_contract: the contract, or None when the ABI cannot be loaded
ContractLoads == BOOLEAN

\* button "Publish Proof"
PublishProof ==
    /\ LET bundle == Get("bundle_hash")
       IN IF bundle = Unset
          THEN /\ message' = "No hash available."
               /\ UNCHANGED <<session_state, published, last>>
          ELSE \E contract \in ContractLoads :
                 IF ~contract
                 THEN /\ message' = "Could not load proof contract."
                      /\ UNCHANGED <<session_state, published, last>>
                 ELSE /\ last' = [op |-> "publish_proof_onchain", bundle |-> bundle, tx |-> Unset]
                      /\ \/ \* publish_proof_onchain raises
                            /\ message' = "Error"
                            /\ UNCHANGED <<session_state, published>>
                         \/ \* it returns a receipt
                            \E tx \in TxHashes :
                              /\ message' = "Proof published"
                              /\ session_state' =
                                   Set(Set(session_state, "tx_hash", tx), "network_used", network)
                              /\ published' = published \cup {[bundle |-> bundle, tx |-> tx]}
    /\ UNCHANGED <<generator, network, results, executed>>

\* MintRefused without the test of the proof transaction
MintRefusedWithoutHash(bundle, proof_tx) == bundle = Unset

\* if not bundle or not proof_tx
MintRefused(bundle, proof_tx) == bundle = Unset \/ proof_tx = Unset

\* button "Mint NFT"
MintNFT ==
    /\ LET bundle == Get("bundle_hash")
           proof_tx == Get("tx_hash")
       IN IF MintRefused(bundle, proof_tx)
          THEN /\ message' = "Please publish the proof first."
               /\ UNCHANGED last
          ELSE \E contract \in ContractLoads :
                 IF ~contract
                 THEN /\ message' = "Could not load NFT contract."
                      /\ UNCHANGED last
                 ELSE IF ~results.figure
                      THEN /\ message' = "combined_figures.png not found."
                           /\ UNCHANGED last
                      ELSE /\ last' = [op |-> "mint_nft_onchain", bundle |-> bundle, tx |-> proof_tx]
                           /\ \E minted \in BOOLEAN :
                                message' = IF minted THEN "NFT minted successfully!" ELSE "Error"
    /\ UNCHANGED <<generator, session_state, network, results, executed, published>>

NextDashboard ==
    \/ SelectNetwork
    \/ ExecutePipeline
    \/ PublishProof
    \/ MintNFT

SpecDashboard == Init /\ [][NextDashboard]_vars

\* ------------------------------------------------------ derived predicates
\* simulate_counts is past the block at `at` (it reached a later block, or
\* ended in a later block)
Blocks == <<"seed", "names", "samples", "select", "means", "fold", "size", "ctrl", "save", "done">>

BlockOf(p) == IF p = "trt" THEN "ctrl" ELSE p

ErrorBlock ==
    CASE error.at = "gene_list" -> "names"
      [] error.at = "choice" -> "select"
      [] error.at = "size" -> "size"
      [] error.at = "negative_binomial" -> "ctrl"
      [] error.at = "to_csv" -> "save"
      [] OTHER -> "seed"

IndexOf(b) == CHOOSE k \in 1..Len(Blocks) : Blocks[k] = b

\* the block the invocation is in, or was in when it raised
Position ==
    IF pc = "idle" \/ error.kind = "SystemExit" THEN 0
    ELSE IF pc = "failed" THEN IndexOf(ErrorBlock)
    ELSE IndexOf(BlockOf(pc))

\* the block `b` has been executed to its end
Past(b) == Position > IndexOf(b)

IsDistinct(q) == \A j, k \in 1..Len(q) : j # k => q[j] # q[k]

GeneIndices == 0..(args.n_genes - 1)
DEGenes == Range(de_indices)
NbDraws == {k \in 1..Len(draws) : draws[k].what = "nb"}

\* ------------------------------------------------------------------ claims

\* C1: two independent runs with the same parameter set (seed included)
\* produce identical output tables: whenever a run ends with a table and
\* an earlier run with the same arguments, started from any random state,
\* produced a table, the two tables are equal cell for cell.
C1_Determinism ==
    (pc = "done" /\ prev.exists) => (file.exists /\ file.rows = prev.rows)

C1_Witness ==
    /\ pc = "done" /\ prev.exists /\ file.exists
    /\ args.n_genes = 2 /\ n_de = 2 /\ args.n_trt = 2

\* C2: a supplied gene list shorter than n_genes (any length 0..n_genes-1)
\* makes the invocation fail at the name check with an error carrying the
\* available and the required count, before any value is drawn.
C2_ShortListRejected ==
    (/\ Position > 0
     /\ ValidNumbers(args)
     /\ args.gene_list.supplied
     /\ Len(args.gene_list.names) < args.n_genes
     /\ Past("names") \/ pc = "failed")
    => (/\ pc = "failed"
        /\ error.kind = "ValueError" /\ error.at = "gene_list"
        /\ error.info = <<Len(args.gene_list.names), args.n_genes>>
        /\ draws = <<>>)

\* C3: the table is written only as the last step: no file exists at the
\* output path unless the invocation completed every step, a failed
\* invocation leaves no file, and a file that exists is a complete table.
C3_TableWrittenLast ==
    /\ (file.exists => pc = "done")
    /\ (pc = "failed" => file = NoFile)
    /\ (file.exists =>
          /\ Len(file.rows) = args.n_genes + 1
          /\ \A r \in 1..Len(file.rows) : Len(file.rows[r]) = 1 + args.n_ctrl + args.n_trt
          /\ Len(draws) = PermutationDraws(args.n_genes) + args.n_genes
                            + args.n_genes * (args.n_ctrl + args.n_trt))

C3_Witness ==
    /\ pc = "failed" /\ error.at = "gene_list"
    /\ Len(args.gene_list.names) = 1 /\ args.n_genes = 2
    /\ ~file.exists

C3_WitnessMidLoop ==
    /\ pc = "failed" /\ error.at = "negative_binomial" /\ i = 1
    /\ ~file.exists

Differing == {g \in GeneIndices : ~REq(mu_trt[g + 1], mu_ctrl[g + 1])}

\* C4: for valid parameters with fold_change # 1 the selection holds
\* n_de = floor(n_genes * de_prop) pairwise distinct indices of [0, n_genes),
\* exactly these genes have mu_trt # mu_ctrl; with de_prop = 0 the run does
\* not fail and no gene differs, with de_prop = 1 every gene differs.
C4_DESelection ==
    /\ (Past("fold") /\ ValidArgs(args) /\ ~REq(args.fold_change, ROne)) =>
          /\ n_de * args.de_prop[2] <= args.n_genes * args.de_prop[1]
          /\ args.n_genes * args.de_prop[1] < (n_de + 1) * args.de_prop[2]
          /\ Len(de_indices) = n_de
          /\ IsDistinct(de_indices)
          /\ DEGenes \subseteq GeneIndices
          /\ Differing = DEGenes
          /\ Cardinality(Differing) = n_de
          /\ (REq(args.de_prop, RZero) => Differing = {})
          /\ (REq(args.de_prop, ROne) => Differing = GeneIndices)
    /\ (Position > 0 /\ ValidArgs(args) /\ REq(args.de_prop, RZero) /\ pc = "failed") =>
          error.at = "to_csv"

C4_Witness ==
    /\ Past("fold") /\ ValidArgs(args) /\ ~REq(args.fold_change, ROne)
    /\ args.n_genes = 3 /\ n_de = 1
    /\ Cardinality(Differing) = 1

C4_WitnessNone ==
    /\ pc = "done" /\ ValidArgs(args) /\ ~REq(args.fold_change, ROne)
    /\ REq(args.de_prop, RZero) /\ args.n_genes = 2

Raised == {g \in GeneIndices : RLess(mu_ctrl[g + 1], mu_trt[g + 1])}
Lowered == {g \in GeneIndices : RLess(mu_trt[g + 1], mu_ctrl[g + 1])}

\* C5: with fold_change > 1 the first n_de // 2 selected genes, and only
\* they, have mu_trt = mu_ctrl * fold_change > mu_ctrl; every other selected
\* gene has mu_trt = mu_ctrl / fold_change < mu_ctrl.
C5_Directionality ==
    (Past("fold") /\ RLess(ROne, args.fold_change)) =>
        /\ \A k \in 1..Len(de_indices) :
              LET g == de_indices[k] + 1
              IN IF k <= n_de \div 2
                 THEN /\ REq(mu_trt[g], RMul(mu_ctrl[g], args.fold_change))
                      /\ RLess(mu_ctrl[g], mu_trt[g])
                 ELSE /\ REq(mu_trt[g], RDiv(mu_ctrl[g], args.fold_change))
                      /\ RLess(mu_trt[g], mu_ctrl[g])
        /\ Cardinality(Raised) = n_de \div 2
        /\ Cardinality(Lowered) = n_de - (n_de \div 2)
        /\ Raised \cap Lowered = {}

C5_Witness ==
    /\ Past("fold") /\ RLess(ROne, args.fold_change)
    /\ n_de = 2 /\ Cardinality(Raised) = 1 /\ Cardinality(Lowered) = 1

Distinguishable == ~REq(RMul(args.fold_change, args.fold_change), ROne)

UpGroup ==
    {g \in DEGenes : REq(mu_trt[g + 1], RMul(mu_ctrl[g + 1], args.fold_change))}

DownGroup ==
    {g \in DEGenes : REq(mu_trt[g + 1], RDiv(mu_ctrl[g + 1], args.fold_change))}

\* C6 (as claimed): when n_de is odd the upregulated group, the genes whose
\* mean is multiplied by fold_change, is one larger than the downregulated one.
C6_UpGetsExtra ==
    (Past("fold") /\ n_de % 2 = 1 /\ ValidArgs(args) /\ Distinguishable) =>
        Cardinality(UpGroup) = Cardinality(DownGroup) + 1

\* C6 (amended): when n_de is odd the downregulated group, the genes whose
\* mean is divided by fold_change, receives the extra index: it is one
\* larger than the upregulated group.
C6_DownGetsExtra ==
    (Past("fold") /\ n_de % 2 = 1) =>
        /\ Len(SubSeq(de_indices, half + 1, n_de)) = Len(SubSeq(de_indices, 1, half)) + 1
        /\ (Distinguishable => Cardinality(DownGroup) = Cardinality(UpGroup) + 1)

C6_Witness ==
    /\ Past("fold") /\ n_de = 3 /\ Distinguishable
    /\ Cardinality(UpGroup) = 1 /\ Cardinality(DownGroup) = 2

ExpectedDraws(a) ==
    LET n == a.n_genes
        c == a.n_ctrl + a.n_trt
        pd == n - 1
    IN [k \in 1..(pd + n + n * c) |->
          [what |-> IF k <= pd THEN "choice" ELSE IF k <= pd + n THEN "uniform" ELSE "nb",
           gene |-> IF k <= pd THEN -1
                    ELSE IF k <= pd + n THEN k - pd - 1
                    ELSE (k - pd - n - 1) \div c,
           col |-> IF k <= pd + n THEN -1 ELSE (k - pd - n - 1) % c,
           state |-> Advance(SeedState(a.seed), k - 1)]]

IsPrefix(q, r) == Len(q) <= Len(r) /\ q = SubSeq(r, 1, Len(q))

\* C7: the generator is seeded exactly once per invocation and every value
\* is taken from that one stream in the order: DE selection, the n_genes
\* baseline means, then the counts gene by gene, control columns before
\* treatment columns.
C7_SingleStream ==
    /\ (Position = 1 => seeded = 0)
    /\ (Position > 1 => seeded = 1 /\ rng = Advance(SeedState(args.seed), Len(draws)))
    /\ (Position > 0 => IsPrefix(draws, ExpectedDraws(args)))
    /\ (Past("select") => Len(draws) >= args.n_genes - 1)
    /\ (Past("means") => Len(draws) >= 2 * args.n_genes - 1)
    /\ (pc = "trt" => Len(draws) = 2 * args.n_genes - 1
                          + i * (args.n_ctrl + args.n_trt) + args.n_ctrl)
    /\ (Past("ctrl") => draws = ExpectedDraws(args))

C7_Witness ==
    /\ pc = "done" /\ args.n_genes = 3 /\ args.n_ctrl = 2 /\ args.n_trt = 2
    /\ Len(draws) = 17

NonPositive(q) == RLeq(q, RZero)

BadMean ==
    /\ Past("fold")
    /\ \E g \in 1..Len(mu_trt) : NonPositive(mu_ctrl[g]) \/ NonPositive(mu_trt[g])

\* C8: with dispersion <= 0, or a group mean <= 0 for some gene, the
\* invocation is rejected before the first count is sampled: no count is
\* ever drawn and the run never reaches the table.
C8_RejectedBeforeSampling ==
    (Position > 0 /\ (NonPositive(args.dispersion) \/ BadMean)) =>
        /\ NbDraws = {}
        /\ pc \notin {"trt", "save", "done"}

OneBased == <<"1", "2", "3", "4", "5", "6", "7", "8", "9">>

\* C9: the table of a completed run has n_genes data rows and
\* n_ctrl + n_trt data columns, named ctrl_1..ctrl_{n_ctrl} then
\* trt_1..trt_{n_trt}; the first n_ctrl columns are the ones drawn with
\* mu_ctrl, the others are drawn with mu_trt.
C9_Shape ==
    pc = "done" =>
        LET c == args.n_ctrl
            t == args.n_trt
            header == file.rows[1]
        IN /\ Len(file.rows) = args.n_genes + 1
           /\ \A r \in 1..Len(file.rows) : Len(file.rows[r]) = 1 + c + t
           /\ header[1] = <<>>
           /\ \A k \in 1..c : header[1 + k] = <<"ctrl_", OneBased[k]>>
           /\ \A k \in 1..t : header[1 + c + k] = <<"trt_", OneBased[k]>>
           /\ \A g \in GeneIndices, col \in 0..(c + t - 1) :
                 \E k \in NbDraws :
                    /\ draws[k].gene = g /\ draws[k].col = col
                    /\ file.rows[g + 2][col + 2] =
                          NBSample(size,
                                   Prob(size, IF col < c THEN mu_ctrl[g + 1] ELSE mu_trt[g + 1]),
                                   draws[k].state)

C9_Witness ==
    /\ pc = "done" /\ ValidArgs(args)
    /\ args.n_genes = 3 /\ args.n_ctrl = 2 /\ args.n_trt = 1
    /\ Len(file.rows[1]) = 4

RowLabels == [g \in 1..(Len(file.rows) - 1) |-> file.rows[g + 1][1]]

LongEnough == args.gene_list.supplied /\ Len(args.gene_list.names) >= args.n_genes

LabelsAsSupplied ==
    /\ Len(RowLabels) = args.n_genes
    /\ RowLabels = genes
    /\ (LongEnough => \A k \in 1..args.n_genes : RowLabels[k] = args.gene_list.names[k])
    /\ (~LongEnough => \A k \in 1..args.n_genes : RowLabels[k] = <<"gene_", OneBased[k]>>)

\* C10 (as claimed): the row labels of a completed run are exactly n_genes
\* pairwise distinct identifiers: the first n_genes entries of a supplied
\* list that has at least n_genes entries, in order, otherwise
\* gene_1..gene_{n_genes}.
C10_GeneSetDistinct ==
    (pc = "done" /\ ValidArgs(args)) => (LabelsAsSupplied /\ IsDistinct(RowLabels))

\* C10 (amended): the row labels of a completed run are exactly n_genes
\* identifiers, the first n_genes entries of a supplied list that has at
\* least n_genes entries, in order, otherwise gene_1..gene_{n_genes}; they
\* are pairwise distinct when they are generated or when the first n_genes
\* entries of the supplied list are pairwise distinct.
C10_GeneSet ==
    pc = "done" =>
        /\ LabelsAsSupplied
        /\ ((LongEnough => IsDistinct(SubSeq(args.gene_list.names, 1, args.n_genes)))
               => IsDistinct(RowLabels))

C10_Witness ==
    /\ pc = "done"
    /\ args.gene_list.supplied /\ Len(args.gene_list.names) = 2 /\ args.n_genes = 1
    /\ RowLabels = <<args.gene_list.names[1]>>

\* what a call computes when the generator is taken from the seed argument
\* alone: the selection, the means, each count and the table
SelectionOf(a) == Choice(a.n_genes, DeCount(a.n_genes, a.de_prop), SeedState(a.seed))

StateAtMeans(a) == Steps(SeedState(a.seed), PermutationDraws(a.n_genes))

BaselineOf(a) == [g \in 1..a.n_genes |-> Uniform(MuLow, MuHigh, Steps(StateAtMeans(a), g - 1))]

TreatedOf(a) ==
    FoldedMeans(BaselineOf(a), SelectionOf(a), Half(Len(SelectionOf(a))), a.fold_change)

StateAtCell(a, g, col) ==
    Steps(StateAtMeans(a), a.n_genes + (g - 1) * (a.n_ctrl + a.n_trt) + col - 1)

CountOf(a, g, col) ==
    NBSample(RDiv(ROne, a.dispersion),
             Prob(RDiv(ROne, a.dispersion),
                  IF col <= a.n_ctrl THEN BaselineOf(a)[g] ELSE TreatedOf(a)[g]),
             StateAtCell(a, g, col))

TableOf(a) ==
    <<(<<<<>>>> \o CtrlSampleNames(a.n_ctrl) \o TrtSampleNames(a.n_trt))>>
    \o [g \in 1..a.n_genes |->
          <<GeneNames(a.gene_list, a.n_genes)[g]>>
          \o [col \in 1..(a.n_ctrl + a.n_trt) |-> CountOf(a, g, col)]]

\* C11: simulate_counts reseeds the process-wide generator at its start, so
\* the table a call with parameters P writes is the same for a first call in
\* a process (whatever random state the process starts with) and for a call
\* after any earlier calls, completed or failed, with any parameters: it is
\* a function of P alone.
C11_IndependentOfEarlierCalls ==
    pc = "done" => file.exists /\ file.rows = TableOf(args)

C11_Witness ==
    /\ pc = "done" /\ earlier = {"done", "failed"}
    /\ args.n_genes = 3 /\ n_de = 3 /\ args.n_ctrl = 2
    /\ file.rows = TableOf(args)

C11_WitnessFirstCall ==
    /\ pc = "done" /\ earlier = {}
    /\ args.n_genes = 3 /\ n_de = 3 /\ args.n_ctrl = 2

\* C12: in every sequence of button presses of a dashboard session,
\* mint_nft_onchain is called only with a bundle hash and a transaction hash
\* held by the session state; a transaction hash is held only when
\* publish_proof_onchain returned a receipt with it; publish_proof_onchain is
\* called only with a stored bundle hash, and a bundle hash is stored only by
\* the pipeline button. So a publication that returned precedes every mint,
\* and a pipeline execution that stored the hash precedes every publication.
C12_MintAfterProofAfterPipeline ==
    /\ last.op = "mint_nft_onchain" =>
         /\ last.bundle # Unset /\ last.bundle \in executed
         /\ last.tx # Unset /\ last.tx = Get("tx_hash")
         /\ \E p \in published : p.tx = last.tx
    /\ Get("tx_hash") # Unset => \E p \in published : p.tx = Get("tx_hash")
    /\ last.op = "publish_proof_onchain" => last.bundle # Unset /\ last.bundle \in executed
    /\ \A p \in published : p.bundle \in executed
    /\ Get("bundle_hash") # Unset => Get("bundle_hash") \in executed

C12_Witness ==
    /\ last.op = "mint_nft_onchain"
    /\ message = "NFT minted successfully!"
    /\ [bundle |-> last.bundle, tx |-> last.tx] \in published

C12_WitnessRefused ==
    /\ message = "Please publish the proof first."
    /\ Get("bundle_hash") # Unset

====
